---------------------------- MODULE Spec2Model ----------------------------
(***************************************************************************)
(* Fireflies webhook relay (src/app.py) and the transcript preprocessing   *)
(* pipeline (src/prompts/preprocessing.py, src/prompts/email_draft.py).    *)
(*                                                                         *)
(* Python strings are sequences of one-character strings, so that strip(), *)
(* len(), lower-casing, the filler regular expression, f-strings and       *)
(* str.join are computed and not assumed.  A dictionary is a record whose  *)
(* fields are slots: a key that is missing, a key holding null (None), or  *)
(* a key holding a value.                                                  *)
(***************************************************************************)
EXTENDS Integers, Sequences, FiniteSets, TLC

VARIABLES
    TARGET_CHANNEL_ID,  \* app.py:25, the process-wide channel cache
    running,            \* the delivery whose coroutine holds the event loop
    deliveries,         \* per webhook delivery: position, locals, effects
    raw,                \* the raw transcript handed to the pure functions
    preprocessed,       \* what preprocess_transcript did with raw
    discussion,         \* what extract_key_discussion did with raw's sentences
    simple              \* what generate_email_draft built from raw

vars == <<TARGET_CHANNEL_ID, running, deliveries, raw, preprocessed, discussion, simple>>

webhookVars == <<TARGET_CHANNEL_ID, running, deliveries>>

pureVars == <<raw, preprocessed, discussion, simple>>

-----------------------------------------------------------------------------
(* Bounds of the model *)

NumDeliveries == 2

MaxSentLen == 2

MaxAttendees == 2

MaxReps == 151

-----------------------------------------------------------------------------
(* String literals of the program *)

S_Meeting == <<"M", "e", "e", "t", "i", "n", "g">>

S_Unknown == <<"U", "n", "k", "n", "o", "w", "n">>

S_NotSpecified == <<"N", "o", "t", " ", "s", "p", "e", "c", "i", "f", "i", "e", "d">>

S_None == <<"N", "o", "n", "e">>

NO_TRANSCRIPT == <<"N", "o", " ", "t", "r", "a", "n", "s", "c", "r", "i", "p", "t", " ", "a", "v", "a", "i", "l", "a", "b", "l", "e">>

FALLBACK_DRAFT == <<"E", "r", "r", "o", "r", " ", "g", "e", "n", "e", "r", "a", "t", "i", "n", "g", " ", "e", "m", "a", "i", "l", " ", "d", "r", "a", "f", "t", ".", " ", "P", "l", "e", "a", "s", "e", " ", "t", "r", "y", " ", "a", "g", "a", "i", "n", ".">>

S_CommaSpace == <<",", " ">>

S_ColonSpace == <<":", " ">>

S_DashSpace == <<"-", " ">>

S_Newline == <<"\n">>

S_Space == <<" ">>

(* Sample input texts *)

T_Ok == <<"o", "k">>

T_ThankYou == <<" ", "T", "h", "a", "n", "k", " ", "y", "o", "u", ".", " ">>

T_SoundsGood == <<"S", "o", "u", "n", "d", "s", " ", "g", "o", "o", "d">>

T_ShortTxt == <<"s", "h", "o", "r", "t", " ", "t", "x", "t">>

T_Deadline == <<"M", "o", "v", "e", " ", "d", "e", "a", "d", "l", "i", "n", "e", " ", "t", "o", " ", "M", "a", "r", "c", "h">>

T_Budget == <<"B", "u", "d", "g", "e", "t", " ", "i", "s", " ", "4", "0", "k">>

N_Ana == <<"A", "n", "a">>

N_Bo == <<"B", "o">>

S_Title == <<"Q", "3", " ", "s", "y", "n", "c">>

S_Date == <<"M", "o", "n", ",", " ", "0", "3", " ", "M", "a", "r">>

S_Overview == <<"R", "o", "a", "d", "m", "a", "p">>

S_Item == <<"S", "e", "n", "d", " ", "d", "e", "c", "k">>

S_Keyword == <<"p", "r", "i", "c", "i", "n", "g">>

S_Draft == <<"H", "i", " ", "A", "n", "a", ",", " ", "t", "h", "a", "n", "k", "s", ".">>

S_Url == <<"h", "t", "t", "p", "s", ":", "/", "/", "f", "f">>

-----------------------------------------------------------------------------
(* Python values *)

Missing == [k |-> "missing"]

Null == [k |-> "null"]

Val(v) == [k |-> "val", v |-> v]

\* d.get(key): the value, or None when the key is missing
Get(slot) == IF slot.k = "missing" THEN Null ELSE slot

\* d.get(key, default)
GetD(slot, default) == IF slot.k = "missing" THEN Val(default) ELSE slot

\* truth value of a str or list, or of None
Truthy(slot) == slot.k = "val" /\ slot.v # <<>>

\* truth value of a dict, or of None: a dict is true when it has a key
TruthyDict(slot) == slot.k = "val" /\ \E f \in DOMAIN slot.v : slot.v[f].k # "missing"

\* x or y, for str and list operands
Or(x, y) == IF Truthy(x) THEN x ELSE y

\* what a function call did
NotRun == [st |-> "not_run"]

Raised(e) == [st |-> "raised", exc |-> e]

Ret(v) == [st |-> "returned", v |-> v]

Min2(a, b) == IF a < b THEN a ELSE b

\* seq[:n]
Take(seq, n) == SubSeq(seq, 1, Min2(n, Len(seq)))

\* the concatenation of f[lo], ..., f[hi], each a sequence, in index order
RECURSIVE Flatten(_, _, _)
Flatten(f, lo, hi) ==
    IF lo > hi THEN <<>>
    ELSE IF lo = hi THEN f[lo]
    ELSE LET mid == (lo + hi) \div 2
         IN Flatten(f, lo, mid) \o Flatten(f, mid + 1, hi)

\* sep.join(items)
Join(sep, items) ==
    Flatten([i \in 1..Len(items) |-> IF i = 1 THEN items[i] ELSE sep \o items[i]],
            1, Len(items))

Whitespace == {" ", "\t", "\n", "\r", "\f"}

\* the first index at or after i that holds no whitespace
RECURSIVE SkipLeft(_, _)
SkipLeft(s, i) ==
    IF i > Len(s) THEN i
    ELSE IF s[i] \in Whitespace THEN SkipLeft(s, i + 1) ELSE i

\* the last index at or before i that holds no whitespace
RECURSIVE SkipRight(_, _)
SkipRight(s, i) ==
    IF i < 1 THEN i
    ELSE IF s[i] \in Whitespace THEN SkipRight(s, i - 1) ELSE i

\* str.strip()
Strip(s) == SubSeq(s, SkipLeft(s, 1), SkipRight(s, Len(s)))

UPPER == <<"A", "B", "C", "D", "E", "F", "G", "H", "I", "J", "K", "L", "M",
           "N", "O", "P", "Q", "R", "S", "T", "U", "V", "W", "X", "Y", "Z">>

LOWER == <<"a", "b", "c", "d", "e", "f", "g", "h", "i", "j", "k", "l", "m",
           "n", "o", "p", "q", "r", "s", "t", "u", "v", "w", "x", "y", "z">>

LowerTable == [c \in {UPPER[i] : i \in 1..26} |-> LOWER[CHOOSE i \in 1..26 : UPPER[i] = c]]

LowerChar(c) == IF c \in DOMAIN LowerTable THEN LowerTable[c] ELSE c

\* str.lower(), which is how re.IGNORECASE compares
Lower(s) == SubSeq([i \in 1..Len(s) |-> LowerChar(s[i])], 1, Len(s))

-----------------------------------------------------------------------------
(* src/prompts/preprocessing.py *)

FILLER_PATTERNS ==
    { <<"o", "k", "a", "y">>, <<"o", "k">>, <<"y", "e", "a", "h">>, <<"y", "e", "s">>,
      <<"n", "o">>, <<"h", "i">>, <<"h", "e", "l", "l", "o">>, <<"h", "e", "y">>,
      <<"b", "y", "e">>, <<"c", "o", "o", "l">>, <<"s", "u", "r", "e">>,
      <<"r", "i", "g", "h", "t">>, <<"s", "o">>, <<"u", "m">>, <<"u", "h">>,
      <<"h", "m", "m">>, <<"a", "h">>, <<"o", "h">>,
      <<"t", "h", "a", "n", "k", " ", "y", "o", "u">>, <<"t", "h", "a", "n", "k", "s">>,
      <<"g", "o", "o", "d">>, <<"g", "r", "e", "a", "t">>,
      <<"a", "w", "e", "s", "o", "m", "e">>, <<"n", "i", "c", "e">>,
      <<"p", "e", "r", "f", "e", "c", "t">>,
      <<"i", " ", "s", "e", "e">>, <<"i", " ", "t", "h", "i", "n", "k">>,
      <<"i", " ", "m", "e", "a", "n">>, <<"y", "o", "u", " ", "k", "n", "o", "w">> }

\* FILLER_REGEX.match(text): every alternative is ^(word)\.?$, case-insensitive;
\* $ also matches before one trailing newline
FILLER_REGEX_match(text) ==
    LET t == Lower(text)
        u == IF Len(t) > 0 /\ t[Len(t)] = "\n" THEN SubSeq(t, 1, Len(t) - 1) ELSE t
    IN \E w \in FILLER_PATTERNS : u = w \/ u = w \o <<".">>

FillerMaxLen == 15

SubstantiveMinLen == 10

max_sentences == 300

is_filler_sentence(text) ==
    LET t == Strip(text)
    IN IF Len(t) < FillerMaxLen THEN FILLER_REGEX_match(t) ELSE FALSE

is_substantive_sentence(text) ==
    LET t == Strip(text)
    IN IF Len(t) < SubstantiveMinLen THEN FALSE
       ELSE IF is_filler_sentence(t) THEN FALSE
       ELSE TRUE

\* one pass of the loop body of extract_sentences_text: what it appends
SentenceEntry(sentence) ==
    LET text == Strip(GetD(sentence.text, <<>>).v)
        speaker == Get(sentence.speaker_name)
    IN IF is_substantive_sentence(text)
       THEN IF Truthy(speaker) THEN << speaker.v \o S_ColonSpace \o text >>
            ELSE << text >>
       ELSE <<>>

\* None.strip() raises AttributeError on the first sentence whose text is null
extract_sentences_text(sentences) ==
    IF \E i \in 1..Len(sentences) : sentences[i].text.k = "null"
    THEN Raised("AttributeError")
    ELSE Ret(Flatten([i \in 1..Len(sentences) |-> SentenceEntry(sentences[i])],
                     1, Len(sentences)))

\* extract_key_discussion, with the slice one too long
extract_key_discussion_OneMore(sentences, max) ==
    LET substantive == extract_sentences_text(sentences)
    IN IF substantive.st = "raised" THEN substantive
       ELSE LET selected == Take(substantive.v, max + 1)
            IN Ret(Join(S_Newline,
                        [i \in 1..Len(selected) |-> S_DashSpace \o selected[i]]))

extract_key_discussion(sentences, max) ==
    LET substantive == extract_sentences_text(sentences)
    IN IF substantive.st = "raised" THEN substantive
       ELSE LET selected == Take(substantive.v, max)
            IN Ret(Join(S_Newline,
                        [i \in 1..Len(selected) |-> S_DashSpace \o selected[i]]))


common_tech_terms ==
    { <<"A", "I">>,
      <<"C", "h", "a", "t", "G", "P", "T">>,
      <<"C", "l", "a", "u", "d", "e">>,
      <<"C", "u", "r", "s", "o", "r">>,
      <<"C", "o", "p", "i", "l", "o", "t">>,
      <<"G", "i", "t", "H", "u", "b">>,
      <<"A", "z", "u", "r", "e">>,
      <<"D", "e", "v", "O", "p", "s">>,
      <<"A", "W", "S">>,
      <<"G", "C", "P">>,
      <<"J", "i", "r", "a">>,
      <<"D", "e", "v", "i", "n">>,
      <<"W", "i", "n", "d", "s", "u", "r", "f">>,
      <<"S", "a", "a", "S">>,
      <<"A", "P", "I">>,
      <<"G", "r", "a", "p", "h", "Q", "L">>,
      <<"P", "y", "t", "h", "o", "n">>,
      <<"J", "a", "v", "a", "S", "c", "r", "i", "p", "t">>,
      <<"T", "y", "p", "e", "S", "c", "r", "i", "p", "t">>,
      <<"R", "e", "a", "c", "t">>,
      <<"N", "o", "d", "e">>,
      <<"D", "o", "c", "k", "e", "r">>,
      <<"K", "u", "b", "e", "r", "n", "e", "t", "e", "s">> }

\* needle in haystack, for strings
Contains(haystack, needle) ==
    \E i \in 1..(Len(haystack) - Len(needle) + 1) :
        \A j \in 1..Len(needle) : haystack[i + j - 1] = needle[j]

extract_entities_from_text(text) ==
    LET low == Lower(text)
    IN [people |-> {}, companies |-> {},
        technologies |-> {tech \in common_tech_terms : Contains(low, Lower(tech))}]

\* a.get("displayName") or a.get("name", "Unknown"), for each attendee
AttendeeName(a) == Or(Get(a.displayName), GetD(a.name, S_Unknown))

\* ", ".join([...]) if attendees else "Not specified"; join raises TypeError on None
AttendeeNames(attendees) ==
    IF attendees = <<>> THEN Ret(S_NotSpecified)
    ELSE IF \E i \in 1..Len(attendees) : AttendeeName(attendees[i]).k = "null"
         THEN Raised("TypeError")
         ELSE Ret(Join(S_CommaSpace,
                       [i \in 1..Len(attendees) |-> AttendeeName(attendees[i]).v]))

EmptyDict == [overview |-> Missing, action_items |-> Missing, keywords |-> Missing]

\* transcript_data.get("summary") or {}
SummaryData(transcript_data) ==
    LET s == Get(transcript_data.summary)
    IN IF TruthyDict(s) THEN s.v ELSE EmptyDict

\* transcript_data.get("sentences") or []
SentencesOf(transcript_data) == Or(Get(transcript_data.sentences), Val(<<>>)).v

preprocess_transcript(transcript_data) ==
    LET title == Or(Get(transcript_data.title), Val(S_Meeting)).v
        date_string == Or(Get(transcript_data.dateString), Val(<<>>)).v
        attendees == Or(Get(transcript_data.meeting_attendees), Val(<<>>)).v
        attendee_names == AttendeeNames(attendees)
        summary_data == SummaryData(transcript_data)
        overview == Or(Get(summary_data.overview), Val(<<>>)).v
        action_items == Or(Get(summary_data.action_items), Val(<<>>)).v
        keywords == Or(Get(summary_data.keywords), Val(<<>>)).v
        sentences == SentencesOf(transcript_data)
        key_discussion == extract_key_discussion(sentences, max_sentences)
        full_text == Join(S_Space,
                          [i \in 1..Len(sentences) |-> GetD(sentences[i].text, <<>>).v])
    IN IF attendee_names.st = "raised" THEN attendee_names
       ELSE IF key_discussion.st = "raised" THEN key_discussion
       ELSE Ret([title |-> title,
                 date_string |-> date_string,
                 attendee_names |-> attendee_names.v,
                 overview |-> overview,
                 keywords |-> keywords,
                 action_items |-> action_items,
                 key_discussion |-> key_discussion.v,
                 entities |-> extract_entities_from_text(full_text),
                 full_transcript_text |-> full_text])

-----------------------------------------------------------------------------
(* src/prompts/email_draft.py *)

S_NotProvided == <<"N", "o", "t", " ", "p", "r", "o", "v", "i", "d", "e", "d", " ", "-", " ", "e", "x", "t", "r", "a", "c", "t", " ", "f", "r", "o", "m", " ", "t", "r", "a", "n", "s", "c", "r", "i", "p", "t">>

S_ExtractFrom == <<"E", "x", "t", "r", "a", "c", "t", " ", "f", "r", "o", "m", " ", "t", "r", "a", "n", "s", "c", "r", "i", "p", "t">>

\* the prompt, as the values rendered into the slots of the fixed template
\* (entities and date_string keep their defaults in the call app.py makes)
build_email_prompt(title, attendee_names, overview, keywords, action_items, key_discussion) ==
    [title |-> title,
     date_string |-> <<>>,
     attendee_names |-> attendee_names,
     overview |-> IF overview # <<>> THEN overview ELSE S_NotProvided,
     keywords |-> IF keywords # <<>> THEN Join(S_CommaSpace, keywords) ELSE S_ExtractFrom,
     action_items |-> IF action_items # <<>> THEN Join(S_CommaSpace, action_items)
                      ELSE S_ExtractFrom,
     entities_section |-> <<>>,
     key_discussion |-> key_discussion]

-----------------------------------------------------------------------------
(* src/app.py: generate_email_draft up to the model call *)

SimpleMaxSentences == 20

\* an f-string renders None as "None"
Fmt(slot) == IF slot.k = "null" THEN S_None ELSE slot.v

\* f"- {s.get('speaker_name', 'Unknown')}: {s.get('text', '')}"
SimpleLine(s) ==
    S_DashSpace \o Fmt(GetD(s.speaker_name, S_Unknown)) \o S_ColonSpace
                \o Fmt(GetD(s.text, <<>>))

\* SimpleKeyDiscussion, taking a single sentence for no transcript
SimpleKeyDiscussion_MoreThanOne(sentences) ==
    IF Len(sentences) > 1
    THEN LET head == Take(sentences, SimpleMaxSentences)
         IN Join(S_Newline, [i \in 1..Len(head) |-> SimpleLine(head[i])])
    ELSE NO_TRANSCRIPT

\* "\n".join([... for s in sentences[:20]]) if sentences else "No transcript available"
SimpleKeyDiscussion(sentences) ==
    IF sentences # <<>>
    THEN LET head == Take(sentences, SimpleMaxSentences)
         IN Join(S_Newline, [i \in 1..Len(head) |-> SimpleLine(head[i])])
    ELSE NO_TRANSCRIPT

\* lines 108-127 of generate_email_draft: the prompt it sends, or the exception
DraftPrompt(transcript_data) ==
    LET title == Or(Get(transcript_data.title), Val(S_Meeting)).v
        attendees == Or(Get(transcript_data.meeting_attendees), Val(<<>>)).v
        attendee_names == AttendeeNames(attendees)
        summary_data == SummaryData(transcript_data)
        overview == Or(Get(summary_data.overview), Val(<<>>)).v
        action_items == Or(Get(summary_data.action_items), Val(<<>>)).v
        keywords == Or(Get(summary_data.keywords), Val(<<>>)).v
        sentences == SentencesOf(transcript_data)
        key_discussion == SimpleKeyDiscussion(sentences)
    IN IF attendee_names.st = "raised" THEN attendee_names
       ELSE Ret(build_email_prompt(title, attendee_names.v, overview, keywords,
                                   action_items, key_discussion))

-----------------------------------------------------------------------------
(* Raw transcripts: every field the code reads is a missing key, null, empty *)
(* or a value                                                                *)

SeqsUpTo(S, n) == UNION {[1..m -> S] : m \in 0..n}

StrSlots(v) == {Missing, Null, Val(<<>>), Val(v)}

ListSlots(v) == {Missing, Null, Val(<<>>), Val(<<v>>)}

AttendeeKinds ==
    [displayName : {Missing, Null, Val(N_Ana)}, name : {Missing, Null, Val(N_Bo)}]

AttendeeSlots ==
    {Missing, Null} \cup {Val(l) : l \in SeqsUpTo(AttendeeKinds, MaxAttendees)}

SummarySlots ==
    {Missing, Null} \cup
    {Val(d) : d \in [overview : {Missing, Null, Val(S_Overview)},
                     action_items : ListSlots(S_Item),
                     keywords : ListSlots(S_Keyword)]}

SentenceKinds ==
    [text : {Missing, Null, Val(T_Ok), Val(T_ThankYou), Val(T_SoundsGood),
             Val(T_ShortTxt), Val(T_Deadline)},
     speaker_name : {Missing, Null, Val(N_Ana)}]

\* long transcripts: a short pattern of sentences, repeated
Repeat(pattern, n) ==
    [i \in 1..(n * Len(pattern)) |-> pattern[((i - 1) % Len(pattern)) + 1]]

Patterns ==
    LET a == [text |-> Val(T_Deadline), speaker_name |-> Val(N_Ana)]
        b == [text |-> Val(T_Budget), speaker_name |-> Missing]
        f == [text |-> Val(T_Ok), speaker_name |-> Val(N_Bo)]
    IN {<<a>>, <<f>>, <<a, b>>, <<a, f>>, <<f, b>>}

LongSentences ==
    {Repeat(p, n) : p \in Patterns, n \in {MaxReps - 1, MaxReps, 2 * MaxReps}}

SentenceSlots ==
    {Missing, Null} \cup {Val(l) : l \in SeqsUpTo(SentenceKinds, MaxSentLen)}

FullTranscript ==
    [title |-> Val(S_Title),
     dateString |-> Val(S_Date),
     duration |-> Val(125),
     transcript_url |-> Val(S_Url),
     meeting_attendees |-> Val(<<[displayName |-> Val(N_Ana), name |-> Missing]>>),
     summary |-> Val([overview |-> Val(S_Overview),
                      action_items |-> Val(<<S_Item>>),
                      keywords |-> Val(<<S_Keyword>>)]),
     sentences |-> Val(<<[text |-> Val(T_Deadline), speaker_name |-> Val(N_Ana)]>>)]

BareTranscript ==
    [title |-> Missing, dateString |-> Missing, duration |-> Missing,
     transcript_url |-> Missing, meeting_attendees |-> Missing,
     summary |-> Missing, sentences |-> Missing]

RawTranscripts ==
    {[FullTranscript EXCEPT !.title = t, !.dateString = d] :
        t \in StrSlots(S_Title), d \in StrSlots(S_Date)}
    \cup {[FullTranscript EXCEPT !.meeting_attendees = a] : a \in AttendeeSlots}
    \cup {[FullTranscript EXCEPT !.summary = s] : s \in SummarySlots}
    \cup {[FullTranscript EXCEPT !.sentences = s] : s \in SentenceSlots}
    \cup {[BareTranscript EXCEPT !.sentences = Val(l)] : l \in LongSentences}
    \cup {BareTranscript}

-----------------------------------------------------------------------------
(* The pure functions, applied to a raw transcript *)

PreprocessTranscript ==
    /\ preprocessed = NotRun
    /\ preprocessed' = preprocess_transcript(raw)
    /\ UNCHANGED <<raw, discussion, simple, webhookVars>>

ExtractKeyDiscussion ==
    /\ discussion = NotRun
    /\ discussion' = extract_key_discussion(SentencesOf(raw), max_sentences)
    /\ UNCHANGED <<raw, preprocessed, simple, webhookVars>>

BuildDraftPrompt ==
    /\ simple = NotRun
    /\ simple' = DraftPrompt(raw)
    /\ UNCHANGED <<raw, preprocessed, discussion, webhookVars>>

-----------------------------------------------------------------------------
(* src/app.py: the collaborators' answers *)

None == "None"

TARGET_CHANNEL_NAME == "granola-mena-apac"

TRANSCRIPTION_COMPLETED == "Transcription completed"

M_1 == <<"m", "1">>

\* request bodies: not JSON, JSON that is no object, or an object
Payloads ==
    { [kind |-> "invalid_json", eventType |-> Missing, meetingId |-> Missing],
      [kind |-> "json_array", eventType |-> Missing, meetingId |-> Missing] }
    \cup [kind : {"object"},
          eventType : {Missing, Null, Val("Something else")},
          meetingId : {Missing, Val(M_1)}]
    \cup [kind : {"object"},
          eventType : {Val(TRANSCRIPTION_COMPLETED)},
          meetingId : {Missing, Null, Val(<<>>), Val(M_1)}]

\* transcripts the Fireflies API answers with
WebhookTranscripts ==
    { FullTranscript,
      [FullTranscript EXCEPT
          !.title = Null,
          !.sentences = Val(<<[text |-> Val(T_Ok), speaker_name |-> Val(N_Bo)],
                              [text |-> Val(T_Budget), speaker_name |-> Missing]>>)],
      [FullTranscript EXCEPT
          !.meeting_attendees = Val(<<[displayName |-> Null, name |-> Null]>>)] }

NoBody == [data |-> Missing]

\* what the POST to the GraphQL endpoint did
FetchResponses ==
    { [kind |-> "exception", status_code |-> 0, body |-> NoBody],
      [kind |-> "response", status_code |-> 500, body |-> NoBody],
      [kind |-> "response", status_code |-> 500,
       body |-> [data |-> Val([transcript |-> Val(FullTranscript)])]],
      [kind |-> "response", status_code |-> 200, body |-> NoBody],
      [kind |-> "response", status_code |-> 200, body |-> [data |-> Null]],
      [kind |-> "response", status_code |-> 200,
       body |-> [data |-> Val([transcript |-> Missing])]],
      [kind |-> "response", status_code |-> 200,
       body |-> [data |-> Val([transcript |-> Null])]],
      [kind |-> "response", status_code |-> 200,
       body |-> [data |-> Val([transcript |-> Val(BareTranscript)])]] }
    \cup { [kind |-> "response", status_code |-> 200,
            body |-> [data |-> Val([transcript |-> Val(t)])]] : t \in WebhookTranscripts }

NoResponse == [kind |-> "none", status_code |-> 0, body |-> NoBody]

\* what anthropic_client.messages.create did
ModelResults ==
    { [kind |-> "message", content |-> <<S_Draft>>],
      [kind |-> "raise", content |-> <<>>] }

NoModelResult == [kind |-> "none", content |-> <<>>]

\* what slack_client.conversations_list did
LookupResults ==
    { [kind |-> "ok", channels |-> <<>>],
      [kind |-> "ok", channels |-> <<[name |-> "general", id |-> "C0"]>>],
      [kind |-> "ok", channels |-> <<[name |-> "general", id |-> "C0"],
                                     [name |-> TARGET_CHANNEL_NAME, id |-> "C1"]>>],
      [kind |-> "ok", channels |-> <<[name |-> TARGET_CHANNEL_NAME, id |-> "C2"]>>],
      [kind |-> "SlackApiError", channels |-> <<>>],
      [kind |-> "Exception", channels |-> <<>>] }

\* what slack_client.chat_postMessage did
PostResults == {"ok", "SlackApiError", "Exception"}

-----------------------------------------------------------------------------
(* src/app.py: the functions *)

get_channel_id_by_name(result, channel_name) ==
    IF result.kind = "Exception" THEN Raised("Exception")
    ELSE IF result.kind = "SlackApiError" THEN Ret(None)
    ELSE LET hits == {i \in 1..Len(result.channels) :
                         result.channels[i].name = channel_name}
         IN IF hits = {} THEN Ret(None)
            ELSE Ret(result.channels[CHOOSE i \in hits : \A j \in hits : i <= j].id)

\* fetch_fireflies_transcript, without the test of the status code
fetch_fireflies_transcript_AnyStatus(response) ==
    IF response.kind = "exception" THEN Null
    ELSE IF response.body.data.k = "val" /\ response.body.data.v.transcript.k # "missing"
         THEN response.body.data.v.transcript
         ELSE Null

\* lines 72-103: the transcript, or None; every exception is caught
fetch_fireflies_transcript(response) ==
    IF response.kind = "exception" THEN Null
    ELSE IF response.status_code = 200
         THEN LET data == response.body
              IN IF data.data.k # "missing"
                 THEN IF data.data.k = "null" THEN Null  \* "transcript" in None: TypeError
                      ELSE IF data.data.v.transcript.k # "missing"
                           THEN data.data.v.transcript
                           ELSE Null
                 ELSE Null
         ELSE Null

\* ModelText, with an empty draft in place of the fallback string
ModelText_EmptyOnError(result) ==
    IF result.kind = "message" THEN result.content[1] ELSE <<>>

\* lines 129-138: the model call and the fallback
ModelText(result) ==
    IF result.kind = "message" THEN result.content[1] ELSE FALLBACK_DRAFT

\* lines 143-165: the message post_to_slack sends
SlackMessage(email_draft, transcript_data) ==
    LET duration == Get(transcript_data.duration)
        secs == IF duration.k = "val" THEN duration.v ELSE 0
    IN [title |-> Or(Get(transcript_data.title), Val(S_Meeting)).v,
        date_string |-> Or(Get(transcript_data.dateString), Val(<<>>)).v,
        duration_mins |-> IF secs # 0 THEN secs \div 60 ELSE 0,
        transcript_url |-> Or(Get(transcript_data.transcript_url), Val(<<>>)).v,
        email_draft |-> email_draft]

\* what the caller of process_fireflies_webhook gets
NoOutcome == [kind |-> "none", status_code |-> 0, status |-> "", detail |-> ""]

Returned(status) == [kind |-> "return", status_code |-> 200, status |-> status, detail |-> ""]

HTTPException(status_code, detail) ==
    [kind |-> "HTTPException", status_code |-> status_code, status |-> "", detail |-> detail]

\* lines 219-223: the except clauses around the whole handler body
ExceptClauses(exc) ==
    IF exc = "JSONDecodeError" THEN HTTPException(400, "Invalid JSON payload")
    ELSE HTTPException(500, exc)

\* IsIgnoredEvent, ignoring only a delivery that names no event type
IsIgnoredEvent_OnlyUnnamed(event_type) == event_type.k # "val"

\* line 186
IsIgnoredEvent(event_type) ==
    ~(event_type.k = "val" /\ event_type.v = TRANSCRIPTION_COMPLETED)

\* NeedsLookup, without the test of the cache
NeedsLookup_Always(cache) == TRUE

\* line 206
NeedsLookup(cache) == cache = None

\* post_to_slack, without the except clause
post_to_slack_Uncaught(result) ==
    IF result = "ok" THEN Ret(None) ELSE Raised(result)

\* lines 167-175: post_to_slack catches SlackApiError and nothing else
post_to_slack(result) ==
    IF result = "Exception" THEN Raised("Exception") ELSE Ret(None)

-----------------------------------------------------------------------------
(* Webhook deliveries *)

Deliveries == 1..NumDeliveries

NoPayload == [kind |-> "none", eventType |-> Missing, meetingId |-> Missing]

IdleDelivery ==
    [pc |-> "idle",
     payload |-> NoPayload,
     response |-> NoResponse,
     transcript_data |-> Null,
     prompt |-> NotRun,
     model_result |-> NoModelResult,
     email_draft |-> Null,
     looked_up |-> NotRun,
     post_result |-> "none",
     posted |-> Null,
     log |-> <<>>,
     outcome |-> NoOutcome]

Count(log, what) == Cardinality({i \in 1..Len(log) : log[i] = what})

\* the handler ends: the coroutine gives up the event loop for good
Finish(d, rec, outcome) ==
    /\ deliveries' = [deliveries EXCEPT ![d] = [rec EXCEPT !.pc = "done", !.outcome = outcome]]
    /\ running' = 0

\* a request reaches one of the two POST routes; deliveries are numbered as they arrive
Receive(d) ==
    /\ deliveries[d].pc = "idle"
    /\ IF d = 1 THEN TRUE ELSE deliveries[d - 1].pc # "idle"
    /\ \E body \in Payloads :
          deliveries' = [deliveries EXCEPT ![d].pc = "json", ![d].payload = body]
    /\ UNCHANGED <<TARGET_CHANNEL_ID, running, pureVars>>

\* lines 179-195: from request.json() to the await of the transcript fetch
ParsePayload(d) ==
    LET rec == deliveries[d]
        payload == rec.payload
        event_type == Get(payload.eventType)
        meeting_id == Get(payload.meetingId)
    IN /\ rec.pc = "json"
       /\ running = 0
       /\ IF payload.kind = "invalid_json"
          THEN Finish(d, rec, ExceptClauses("JSONDecodeError"))
          ELSE IF payload.kind = "json_array"
          THEN Finish(d, rec, ExceptClauses("AttributeError"))
          ELSE IF IsIgnoredEvent(event_type)
          THEN Finish(d, rec, Returned("ignored"))
          ELSE IF ~Truthy(meeting_id)
          THEN Finish(d, rec, ExceptClauses("400: Missing meetingId in payload"))
          ELSE /\ deliveries' = [deliveries EXCEPT ![d].pc = "fetch",
                                                   ![d].log = Append(rec.log, "fetch")]
               /\ running' = 0
       /\ UNCHANGED <<TARGET_CHANNEL_ID, pureVars>>

\* lines 195-200: the fetch is over and the coroutine is resumed
FetchReturns(d) ==
    LET rec == deliveries[d]
    IN /\ rec.pc = "fetch"
       /\ running = 0
       /\ \E response \in FetchResponses :
             LET transcript_data == fetch_fireflies_transcript(response)
                 got == [rec EXCEPT !.response = response,
                                    !.transcript_data = transcript_data]
             IN IF ~TruthyDict(transcript_data)
                THEN Finish(d, got, ExceptClauses("500: Failed to fetch transcript from Fireflies"))
                ELSE /\ deliveries' = [deliveries EXCEPT ![d] = [got EXCEPT !.pc = "generate"]]
                     /\ running' = d
       /\ UNCHANGED <<TARGET_CHANNEL_ID, pureVars>>

\* line 202: generate_email_draft, the blocking model call included
GenerateEmailDraft(d) ==
    LET rec == deliveries[d]
        prompt == DraftPrompt(rec.transcript_data.v)
    IN /\ rec.pc = "generate"
       /\ running = d
       /\ IF prompt.st = "raised"
          THEN Finish(d, [rec EXCEPT !.prompt = prompt], ExceptClauses(prompt.exc))
          ELSE \E result \in ModelResults :
                  /\ deliveries' =
                        [deliveries EXCEPT ![d] =
                            [rec EXCEPT !.pc = "channel",
                                        !.prompt = prompt,
                                        !.model_result = result,
                                        !.email_draft = Val(ModelText(result)),
                                        !.log = rec.log \o <<"build_email_prompt", "model">>]]
                  /\ running' = d
       /\ UNCHANGED <<TARGET_CHANNEL_ID, pureVars>>

\* lines 205-209: the lazily resolved channel
ResolveChannel(d) ==
    LET rec == deliveries[d]
    IN /\ rec.pc = "channel"
       /\ running = d
       /\ IF NeedsLookup(TARGET_CHANNEL_ID)
          THEN \E result \in LookupResults :
                  LET id == get_channel_id_by_name(result, TARGET_CHANNEL_NAME)
                      got == [rec EXCEPT !.looked_up = id,
                                         !.log = Append(rec.log, "lookup")]
                  IN IF id.st = "raised"
                     THEN /\ Finish(d, got, ExceptClauses(id.exc))
                          /\ UNCHANGED TARGET_CHANNEL_ID
                     ELSE /\ TARGET_CHANNEL_ID' = id.v
                          /\ IF id.v = None
                             THEN Finish(d, got, ExceptClauses("500: Channel 'granola-mena-apac' not found"))
                             ELSE /\ deliveries' = [deliveries EXCEPT ![d] = [got EXCEPT !.pc = "post"]]
                                  /\ running' = d
          ELSE /\ deliveries' = [deliveries EXCEPT ![d].pc = "post"]
               /\ UNCHANGED <<TARGET_CHANNEL_ID, running>>
       /\ UNCHANGED pureVars

\* lines 211-217: post_to_slack and the success response
PostToSlack(d) ==
    LET rec == deliveries[d]
    IN /\ rec.pc = "post"
       /\ running = d
       /\ \E result \in PostResults :
             LET did == post_to_slack(result)
                 got == [rec EXCEPT
                            !.post_result = result,
                            !.posted = Val([channel |-> TARGET_CHANNEL_ID,
                                            text |-> SlackMessage(rec.email_draft.v,
                                                                  rec.transcript_data.v)]),
                            !.log = Append(rec.log, "post")]
             IN IF did.st = "raised"
                THEN Finish(d, got, ExceptClauses(did.exc))
                ELSE Finish(d, got, Returned("success"))
       /\ UNCHANGED <<TARGET_CHANNEL_ID, pureVars>>

-----------------------------------------------------------------------------
(* Specifications *)

\* the server: TARGET_CHANNEL_ID comes from the environment or is unset
Init ==
    /\ TARGET_CHANNEL_ID \in {None, "C_ENV"}
    /\ running = 0
    /\ deliveries = [d \in Deliveries |-> IdleDelivery]
    /\ raw = BareTranscript
    /\ preprocessed = NotRun
    /\ discussion = NotRun
    /\ simple = NotRun

Next ==
    \E d \in Deliveries :
        \/ Receive(d)
        \/ ParsePayload(d)
        \/ FetchReturns(d)
        \/ GenerateEmailDraft(d)
        \/ ResolveChannel(d)
        \/ PostToSlack(d)

Spec == Init /\ [][Next]_vars

\* the pure functions of the preprocessing pipeline on every raw transcript
InitPre ==
    /\ TARGET_CHANNEL_ID = None
    /\ running = 0
    /\ deliveries = [d \in Deliveries |-> IdleDelivery]
    /\ raw \in RawTranscripts
    /\ preprocessed = NotRun
    /\ discussion = NotRun
    /\ simple = NotRun

NextPre ==
    \/ PreprocessTranscript
    \/ ExtractKeyDiscussion
    \/ BuildDraftPrompt

SpecPre == InitPre /\ [][NextPre]_vars

-----------------------------------------------------------------------------
(* Properties of the webhook handler, under Spec *)

IsCompletedEvent(payload) ==
    payload.eventType.k = "val" /\ payload.eventType.v = TRANSCRIPTION_COMPLETED

HasMeetingId(payload) ==
    payload.meetingId.k = "val" /\ Len(payload.meetingId.v) > 0

ServerError(outcome) == outcome.kind = "HTTPException" /\ outcome.status_code = 500

ClientError(outcome) == outcome.kind = "HTTPException" /\ outcome.status_code = 400

\* C1: a delivery whose JSON object carries any eventType other than
\* "Transcription completed" (or none) returns the ignored outcome; no step of
\* that delivery fetches, calls the model, looks the channel up or posts, and
\* none changes the cached channel id.
C1_OtherEventsIgnored ==
    [][\A d \in Deliveries :
          LET now == deliveries'[d]
          IN (/\ now # deliveries[d]
              /\ now.payload.kind = "object"
              /\ ~IsCompletedEvent(now.payload))
             => /\ TARGET_CHANNEL_ID' = TARGET_CHANNEL_ID
                /\ now.log = <<>>
                /\ now.posted = Null
                /\ now.pc = "done" => now.outcome = Returned("ignored")]_vars

C1_Witness ==
    \E d \in Deliveries :
        /\ deliveries[d].pc = "done"
        /\ deliveries[d].payload.kind = "object"
        /\ deliveries[d].payload.eventType = Val("Something else")
        /\ deliveries[d].outcome = Returned("ignored")

\* C2: a "Transcription completed" delivery with a missing or empty meetingId
\* ends in HTTP 400, with no fetch, model call or post.
C2_MissingMeetingIdIsClientError ==
    \A d \in Deliveries :
        (/\ deliveries[d].pc = "done"
         /\ deliveries[d].payload.kind = "object"
         /\ IsCompletedEvent(deliveries[d].payload)
         /\ ~HasMeetingId(deliveries[d].payload))
        => /\ ClientError(deliveries[d].outcome)
           /\ deliveries[d].log = <<>>

\* the cases in which the transcript fetch fails: a network exception, a status
\* other than 200, a GraphQL answer without data.transcript, a null transcript
FetchFailed(response) ==
    \/ response.kind = "exception"
    \/ response.kind = "response" /\ response.status_code # 200
    \/ /\ response.kind = "response"
       /\ response.status_code = 200
       /\ \/ response.body.data.k # "val"
          \/ response.body.data.v.transcript.k # "val"

\* C3: a failed transcript fetch ends the delivery in HTTP 500 after exactly
\* one fetch attempt, with no model call, channel lookup or post.
C3_FetchFailureIsServerError ==
    \A d \in Deliveries :
        FetchFailed(deliveries[d].response)
        => /\ deliveries[d].pc = "done"
           /\ ServerError(deliveries[d].outcome)
           /\ deliveries[d].log = <<"fetch">>
           /\ deliveries[d].prompt = NotRun
           /\ deliveries[d].posted = Null

C3_Witness ==
    \E d, e \in Deliveries :
        /\ deliveries[d].response.kind = "response"
        /\ deliveries[d].response.status_code = 500
        /\ deliveries[d].response.body.data.k = "val"
        /\ ServerError(deliveries[d].outcome)
        /\ deliveries[e].response.kind = "response"
        /\ deliveries[e].response.status_code = 200
        /\ deliveries[e].response.body.data.k = "val"
        /\ deliveries[e].response.body.data.v.transcript = Null
        /\ ServerError(deliveries[e].outcome)

Succeeded(rec) == rec.pc = "done" /\ rec.outcome = Returned("success")

\* the delivery has a destination channel: none had to be looked up, or the lookup found one
ChannelResolved(rec) ==
    \/ rec.looked_up = NotRun
    \/ rec.looked_up.st = "returned" /\ rec.looked_up.v # None

\* C4, as stated: when the model call throws, the fallback string is the draft,
\* it is what is posted, and the delivery ends in success.
C4_FallbackPostedAndSuccess ==
    \A d \in Deliveries :
        (deliveries[d].model_result.kind = "raise" /\ deliveries[d].pc = "done")
        => /\ deliveries[d].email_draft = Val(FALLBACK_DRAFT)
           /\ deliveries[d].posted.k = "val"
           /\ deliveries[d].posted.v.text.email_draft = FALLBACK_DRAFT
           /\ Succeeded(deliveries[d])

\* C4, amended: when the model call throws, generate_email_draft returns the
\* fallback string and processing continues to channel resolution; with a
\* destination channel the fallback string is what is posted, and the delivery
\* ends in success unless the post raises something other than SlackApiError;
\* without one the delivery ends in HTTP 500 and nothing is posted.
C4_FallbackPostedWhenChannelResolved ==
    \A d \in Deliveries :
        LET rec == deliveries[d]
        IN rec.model_result.kind = "raise"
           => /\ rec.email_draft = Val(FALLBACK_DRAFT)
              /\ rec.pc \in {"channel", "post", "done"}
              /\ rec.pc = "done" =>
                    IF ChannelResolved(rec)
                    THEN /\ rec.posted.k = "val"
                         /\ rec.posted.v.text.email_draft = FALLBACK_DRAFT
                         /\ rec.post_result # "Exception" => Succeeded(rec)
                    ELSE /\ rec.posted = Null
                         /\ ServerError(rec.outcome)

C4_Witness ==
    \E d \in Deliveries :
        /\ deliveries[d].model_result.kind = "raise"
        /\ Succeeded(deliveries[d])
        /\ deliveries[d].posted.k = "val"
        /\ deliveries[d].posted.v.text.email_draft = FALLBACK_DRAFT

\* C5, as stated: every delivery that fetched a transcript and produced a draft
\* ends in success, whether or not resolving the channel and posting succeeded,
\* and a post is not retried.
C5_NotificationNeverBlocksSuccess ==
    \A d \in Deliveries :
        (deliveries[d].email_draft.k = "val" /\ deliveries[d].pc = "done")
        => /\ Succeeded(deliveries[d])
           /\ Count(deliveries[d].log, "post") <= 1

\* C5, amended: for every delivery that fetched a transcript, produced a draft
\* and has a destination channel, the outcome is success whether
\* chat_postMessage succeeded or raised SlackApiError, and the post is attempted
\* exactly once; a delivery with a draft ends otherwise only when the channel
\* was not resolved or the post raised another exception, and then in HTTP 500.
C5_SlackApiErrorNeverBlocksSuccess ==
    \A d \in Deliveries :
        LET rec == deliveries[d]
        IN (rec.email_draft.k = "val" /\ rec.pc = "done")
           => /\ Count(rec.log, "post") <= 1
              /\ (ChannelResolved(rec) /\ rec.post_result \in {"ok", "SlackApiError"})
                    => (Succeeded(rec) /\ Count(rec.log, "post") = 1)
              /\ ~Succeeded(rec)
                    => /\ ServerError(rec.outcome)
                       /\ ~ChannelResolved(rec) \/ rec.post_result = "Exception"

C5_Witness ==
    \E d \in Deliveries :
        /\ deliveries[d].post_result = "SlackApiError"
        /\ deliveries[d].looked_up.st = "returned"
        /\ Succeeded(deliveries[d])

\* C6: once TARGET_CHANNEL_ID is not None it never changes, no later step looks
\* the channel up, and every later post goes to it; the cache only ever takes
\* the value the lookup of that very step returned.
C6_ChannelCachedOnce ==
    [][/\ TARGET_CHANNEL_ID # None
          => /\ TARGET_CHANNEL_ID' = TARGET_CHANNEL_ID
             /\ \A d \in Deliveries :
                   /\ Count(deliveries'[d].log, "lookup") = Count(deliveries[d].log, "lookup")
                   /\ deliveries'[d].posted # deliveries[d].posted
                         => deliveries'[d].posted.v.channel = TARGET_CHANNEL_ID
       /\ TARGET_CHANNEL_ID' # TARGET_CHANNEL_ID
          => \E d \in Deliveries :
                /\ deliveries'[d].log = Append(deliveries[d].log, "lookup")
                /\ deliveries'[d].looked_up = Ret(TARGET_CHANNEL_ID')]_vars

\* two deliveries each looked the channel up, and a third step posted to the cached id
C6_Witness ==
    \E d, e \in Deliveries :
        /\ d # e
        /\ deliveries[d].looked_up = Ret(None)
        /\ deliveries[e].looked_up = Ret(TARGET_CHANNEL_ID)
        /\ TARGET_CHANNEL_ID # None
        /\ deliveries[e].posted.k = "val"
        /\ deliveries[e].posted.v.channel = TARGET_CHANNEL_ID

\* C7: a delivery processed to success went through fetch, Preprocessor, Prompt
\* Builder, Email Draft Generator and Notifier, each once and in that order, so
\* the discussion text in the prompt is preprocess_transcript's key_discussion.
C7_PromptGetsPreprocessedDiscussion ==
    \A d \in Deliveries :
        Succeeded(deliveries[d])
        => LET pre == preprocess_transcript(deliveries[d].transcript_data.v)
               log == deliveries[d].log
           IN /\ log \in {<<"fetch", "build_email_prompt", "model", "post">>,
                          <<"fetch", "build_email_prompt", "model", "lookup", "post">>}
              /\ pre.st = "returned"
              /\ deliveries[d].prompt.v.key_discussion = pre.v.key_discussion

-----------------------------------------------------------------------------
(* Properties of the preprocessing pipeline, under SpecPre *)

\* the field is a missing key, null, or empty
Absent(slot) == slot.k # "val" \/ slot.v = <<>>

\* the summary is a missing key, null, or lacks the field
SummaryAbsent(field) ==
    \/ raw.summary.k # "val"
    \/ Absent(raw.summary.v[field])

\* C8: preprocess_transcript never raises on absent data: whichever fields are
\* a missing key, null or an empty list, it returns, with "Meeting", "",
\* "Not specified", the empty string and the empty list in their places.
C8_PreprocessToleratesAbsence ==
    preprocessed # NotRun
    => /\ preprocessed.st = "returned"
       /\ Absent(raw.title) => preprocessed.v.title = S_Meeting
       /\ Absent(raw.dateString) => preprocessed.v.date_string = <<>>
       /\ Absent(raw.meeting_attendees) => preprocessed.v.attendee_names = S_NotSpecified
       /\ SummaryAbsent("overview") => preprocessed.v.overview = <<>>
       /\ SummaryAbsent("action_items") => preprocessed.v.action_items = <<>>
       /\ SummaryAbsent("keywords") => preprocessed.v.keywords = <<>>
       /\ Absent(raw.sentences) => preprocessed.v.key_discussion = <<>>

\* the sentences of raw, an absent list being the empty one
RawSentences == IF Absent(raw.sentences) THEN <<>> ELSE raw.sentences.v

\* a sentence whose trimmed text has at least 10 characters and is no filler
SubstantiveSentence(sentence) ==
    LET t == IF sentence.text.k = "val" THEN Strip(sentence.text.v) ELSE <<>>
    IN Len(t) >= 10 /\ ~is_filler_sentence(t)

\* the line of a surviving sentence: "- ", its speaker and ": " when it has one, its trimmed text
DiscussionLine(sentence) ==
    LET t == Strip(sentence.text.v)
    IN IF ~Absent(sentence.speaker_name)
       THEN S_DashSpace \o sentence.speaker_name.v \o S_ColonSpace \o t
       ELSE S_DashSpace \o t

LineCount(text) ==
    IF text = <<>> THEN 0
    ELSE Cardinality({i \in 1..Len(text) : text[i] = "\n"}) + 1

\* C9: key_discussion has at most 300 entries, and they are the lines of the
\* first 300 (or fewer) substantive sentences of the input, in the input's
\* order, each once; no filler or shorter-than-10-character sentence appears.
C9_FirstSubstantiveSentencesInOrder ==
    discussion.st = "returned"
    => LET kept == Take(SelectSeq(RawSentences, SubstantiveSentence), 300)
       IN /\ Len(kept) <= 300
          /\ LineCount(discussion.v) = Len(kept)
          /\ discussion.v = Join(S_Newline, [i \in 1..Len(kept) |-> DiscussionLine(kept[i])])

C9_Witness ==
    /\ discussion.st = "returned"
    /\ Len(SelectSeq(RawSentences, SubstantiveSentence)) > 300
    /\ Len(RawSentences) > Len(SelectSeq(RawSentences, SubstantiveSentence))
    /\ LineCount(discussion.v) = 300

\* C10, as stated: on both paths the discussion text is "No transcript
\* available" exactly when the sentence sequence is empty, and it is never
\* the empty text for a non-empty sequence.
C10_LiteralIffEmptyOnBothPaths ==
    /\ simple.st = "returned"
       => /\ simple.v.key_discussion = NO_TRANSCRIPT <=> RawSentences = <<>>
          /\ simple.v.key_discussion # <<>>
    /\ discussion.st = "returned"
       => /\ discussion.v = NO_TRANSCRIPT <=> RawSentences = <<>>
          /\ RawSentences # <<>> => discussion.v # <<>>
    /\ preprocessed.st = "returned"
       => /\ preprocessed.v.key_discussion = NO_TRANSCRIPT <=> RawSentences = <<>>
          /\ RawSentences # <<>> => preprocessed.v.key_discussion # <<>>

\* C10, amended: generate_email_draft's discussion text is "No transcript
\* available" exactly when the sentence sequence is empty, and is never the
\* empty text; extract_key_discussion and preprocess_transcript never yield
\* that literal: their discussion text is the empty text exactly when no
\* sentence is substantive, which includes the empty sequence.
C10_LiteralOnlyOnSimplePath ==
    LET none == SelectSeq(RawSentences, SubstantiveSentence) = <<>>
    IN /\ simple.st = "returned"
          => /\ simple.v.key_discussion = NO_TRANSCRIPT <=> RawSentences = <<>>
             /\ simple.v.key_discussion # <<>>
       /\ discussion.st = "returned"
          => /\ discussion.v # NO_TRANSCRIPT
             /\ discussion.v = <<>> <=> none
       /\ preprocessed.st = "returned"
          => /\ preprocessed.v.key_discussion # NO_TRANSCRIPT
             /\ preprocessed.v.key_discussion = <<>> <=> none

C10_Witness ==
    /\ raw.sentences = Val(<<>>)
    /\ simple.st = "returned"
    /\ simple.v.key_discussion = NO_TRANSCRIPT
    /\ discussion = Ret(<<>>)
    /\ preprocessed.st = "returned"
    /\ preprocessed.v.key_discussion = <<>>

=============================================================================
